---- MODULE Spec2Model ----
(***************************************************************************)
(* Model of the data-creation notebook of tropfcode/DATA512 (homework 2):  *)
(* page-info loop, ORES scoring loop, region-hierarchy flattening, final   *)
(* assembly and CSV export, executed cell by cell in notebook order.       *)
(*                                                                         *)
(* Conventions                                                             *)
(*  - a Python dict is a TLA+ record; an absent key is an absent field, so *)
(*    dict equality (used by `p in bad_final_politician_list`) is record   *)
(*    equality;                                                            *)
(*  - Geography / country labels are sequences of characters so that       *)
(*    str.isupper() is computed, not looked up;                            *)
(*  - populations are in tenths of a million (46.8 -> 468);                *)
(*  - throttle waits are in milliseconds;                                  *)
(*  - None is the record PyNone; `bound` is the set of notebook globals    *)
(*    that have been assigned (reading any other name is a NameError);     *)
(*  - origin, fate, gotRev, gotLabel, gotScore are history variables: the  *)
(*    roster position behind each entry of politicians_list, and per       *)
(*    roster position the stage reached and what the clients returned.     *)
(***************************************************************************)
EXTENDS Integers, Sequences, FiniteSets, TLC

\* ------------------------------------------------------------------ bounds
MaxRoster == 2

MaxRows == 5

MaxLookups == 2

MaxCalls == 3

\* ------------------------------------------------------- character labels
UpperChars ==
  {"A","B","C","D","E","F","G","H","I","J","K","L","M",
   "N","O","P","Q","R","S","T","U","V","W","X","Y","Z"}

LowerChars ==
  {"a","b","c","d","e","f","g","h","i","j","k","l","m",
   "n","o","p","q","r","s","t","u","v","w","x","y","z"}

\* str.isupper(): at least one cased character and no lower-case character
isupper(s) ==
  /\ \E k \in 1..Len(s) : s[k] \in UpperChars
  /\ \A k \in 1..Len(s) : s[k] \notin LowerChars

WORLD == <<"W","O","R","L","D">>

AFRICA == <<"A","F","R","I","C","A">>

Algeria == <<"A","l","g","e","r","i","a">>

Egypt == <<"E","g","y","p","t">>

Atlantis == <<"A","t","l","a","n","t","i","s">>

\* ------------------------------------------------------------ input data
\* rows of population_by_country_AUG.2024.csv (Geography, Population)
PopulationRows ==
  { [Geography |-> WORLD,   Population |-> 80090],
    [Geography |-> AFRICA,  Population |-> 14530],
    [Geography |-> Algeria, Population |-> 468],
    [Geography |-> Algeria, Population |-> 500],
    [Geography |-> Egypt,   Population |-> 1052] }

\* rows of politicians_by_country_AUG.2024.csv (name, url, country)
PoliticianRows ==
  { [name |-> "X", url |-> "wiki/X", country |-> Algeria],
    [name |-> "Y", url |-> "wiki/Y", country |-> Egypt],
    [name |-> "Z", url |-> "wiki/Z", country |-> Atlantis] }

\* the hierarchy of the worked example: its last block (AFRICA) is still open
\* when the file ends
ExampleRows ==
  << [Geography |-> WORLD,   Population |-> 80090],
     [Geography |-> AFRICA,  Population |-> 14530],
     [Geography |-> Algeria, Population |-> 468] >>

\* a hierarchy in which the AFRICA block is followed by another header
FlushedRows ==
  << [Geography |-> WORLD,   Population |-> 80090],
     [Geography |-> AFRICA,  Population |-> 14530],
     [Geography |-> Algeria, Population |-> 468],
     [Geography |-> Egypt,   Population |-> 1052],
     [Geography |-> WORLD,   Population |-> 80090] >>

\* population files of the end-to-end runs
Hierarchies == {ExampleRows, FlushedRows}

Countries == {Algeria, Egypt, Atlantis}

SeqsUpTo(S, n) ==
  UNION { [1..m -> S] : m \in 0..n }

RevIds == {100, 200}

Labels == {"B", "Stub"}

Tokens == {"tok", ""}

\* ------------------------------------------------------ Python sentinels
PyNone == [None |-> TRUE]

NoCrash == [cell |-> "", exc |-> ""]

\* --------------------------------------------------------------- constants
API_HEADER_AGENT == "User-Agent"

REQUEST_HEADERS ==
  [x \in {API_HEADER_AGENT} |-> "dtropf@uw.edu"]

PlaceholderAgents == {"uwnetid@uw.edu"}

PAGEINFO_THROTTLE_MS == 8

ORES_THROTTLE_MS == 718

EMAIL_ADDRESS == "dtropf@uw.edu"

\* ------------------------------------------------------------------ state
VARIABLES
  politicians_df, population_df, environ, stub,
  pc, i, crash,
  API_THROTTLE_WAIT, PAGEINFO_PARAMS_TEMPLATE,
  ORES_REQUEST_DATA_TEMPLATE, REQUEST_HEADER_PARAMS_TEMPLATE,
  net, info, score,
  politicians_list, bad_politician_list, bad_final_politician_list,
  pkl1, pkl2,
  region_list, region_dict, country_list, population_list,
  region, population, bound,
  final_dict, csv,
  origin, fate, gotRev, gotLabel, gotScore,
  call, ncalls,
  run, firstRun

inputs == <<politicians_df, population_df, environ, stub>>

control == <<pc, i, crash>>

templates ==
  <<API_THROTTLE_WAIT, PAGEINFO_PARAMS_TEMPLATE,
    ORES_REQUEST_DATA_TEMPLATE, REQUEST_HEADER_PARAMS_TEMPLATE>>

lists == <<politicians_list, bad_politician_list, bad_final_politician_list>>

pickles == <<pkl1, pkl2>>

regions ==
  <<region_list, region_dict, country_list, population_list, region, population,
    bound>>

outputs == <<final_dict, csv>>

ghost == <<origin, fate, gotRev, gotLabel, gotScore>>

client == <<call, ncalls>>

session == <<run, firstRun>>

vars ==
  <<inputs, control, templates, net, info, score, lists, pickles, regions,
    outputs, ghost, client, session>>

\* ------------------------------------------------------- Python helpers
\* truthiness of a str (None is modelled as "": both are falsy, and
\* falsiness is the only thing the callers test)
TruthyStr(s) == s # ""

\* truthiness of an int; the template default rev_id "" is modelled as 0
TruthyInt(n) == n # 0

IsNone(v) == "None" \in DOMAIN v

IsException(resp) == "exception" \in DOMAIN resp

\* list(d.keys())[0] of a non-empty dict
FirstKey(d) == CHOOSE k \in DOMAIN d : TRUE

\* `x in lst` for a Python list
InList(x, lst) == \E k \in 1..Len(lst) : lst[k] = x

\* lst.index(x): first position holding x
IndexOf(x, lst) ==
  CHOOSE k \in 1..Len(lst) : lst[k] = x /\ \A j \in 1..(k-1) : lst[j] # x

\* variant: the assignment replaces the dict by one holding the new key only
DictSet_Replace(d, key, value) == [k \in {key} |-> value]

\* d[key] = value on a Python dict (adds the key when absent)
DictSet(d, key, value) ==
  [k \in DOMAIN d \cup {key} |-> IF k = key THEN value ELSE d[k]]

\* --------------------------------------------- the two external services
TransportFailure == [exception |-> TRUE]

PageFound(title, rev) ==
  [query |-> [pages |-> ("1" :> [title |-> title, lastrevid |-> rev])]]

PageMissing(title) ==
  [query |-> [pages |-> ("-1" :> [title |-> title, missing |-> ""])]]

\* what the Wikipedia endpoint may answer to a request for `title`
PageInfoResponses(title) ==
  {TransportFailure, PageMissing(title)} \cup {PageFound(title, r) : r \in RevIds}

ScoreFound(rev, label) ==
  [enwiki |-> [scores |->
     (rev :> [articlequality |-> [score |-> [prediction |-> label]]])]]

ScoreMissing(rev) ==
  [enwiki |-> [scores |-> (rev :> [error |-> "RevisionNotFound"])]]

\* what the LiftWing endpoint may answer to a request for `rev`
OresResponses(rev) ==
  {TransportFailure, ScoreMissing(rev)} \cup {ScoreFound(rev, l) : l \in Labels}

\* ------------------------------------------------- deterministic services
\* Without a stub each request may get any answer.  A stub fixes, for the
\* whole session, the answer to each title and to each revision id.
NoStub == [fixed |-> FALSE]

NoFirstRun == [pending |-> TRUE]

Titles == {r.name : r \in PoliticianRows}

StubRev == 100

StubLabel == "B"

PageKinds == {"found", "missing", "transport"}

ScoreKinds == {"scored", "noscore"}

Stubs ==
  [fixed : {TRUE}, page : [Titles -> PageKinds], score : [{StubRev} -> ScoreKinds]]

PageInfoReplies(title) ==
  IF ~stub.fixed THEN PageInfoResponses(title)
  ELSE IF stub.page[title] = "found" THEN {PageFound(title, StubRev)}
  ELSE IF stub.page[title] = "missing" THEN {PageMissing(title)}
  ELSE {TransportFailure}

OresReplies(rev) ==
  IF ~stub.fixed THEN OresResponses(rev)
  ELSE IF stub.score[rev] = "scored" THEN {ScoreFound(rev, StubLabel)}
  ELSE {ScoreMissing(rev)}

\* variant: the request goes out first and the wait follows it
request_pageinfo_per_article_WaitAfter(article_title, headers, request_template, wait, resp) ==
  LET tmpl == IF TruthyStr(article_title)
              THEN [request_template EXCEPT !.titles = article_title]
              ELSE request_template
      raised == \/ ~TruthyStr(tmpl.titles)
                \/ API_HEADER_AGENT \notin DOMAIN headers
                \/ headers[API_HEADER_AGENT] \in PlaceholderAgents
      sleep == IF wait > 0
               THEN << [svc |-> "pageinfo", ev |-> "wait", ms |-> wait] >>
               ELSE << >>
      get == << [svc |-> "pageinfo", ev |-> "request", titles |-> tmpl.titles] >>
  IN [ request_template |-> tmpl,
       raised |-> raised,
       net |-> IF raised THEN << >> ELSE get \o sleep,
       json_response |-> IF raised THEN PyNone
                         ELSE IF IsException(resp) THEN PyNone ELSE resp ]

\* ------------------------------------------ request_pageinfo_per_article
\* Result of one call: the (shared, mutated) request template, whether an
\* exception left the function, the network activity, the returned JSON.
request_pageinfo_per_article(article_title, headers, request_template, wait, resp) ==
  LET tmpl == IF TruthyStr(article_title)
              THEN [request_template EXCEPT !.titles = article_title]
              ELSE request_template
      raised == \/ ~TruthyStr(tmpl.titles)
                \/ API_HEADER_AGENT \notin DOMAIN headers
                \/ headers[API_HEADER_AGENT] \in PlaceholderAgents
      sleep == IF wait > 0
               THEN << [svc |-> "pageinfo", ev |-> "wait", ms |-> wait] >>
               ELSE << >>
      get == << [svc |-> "pageinfo", ev |-> "request", titles |-> tmpl.titles] >>
  IN [ request_template |-> tmpl,
       raised |-> raised,
       net |-> IF raised THEN << >> ELSE sleep \o get,
       json_response |-> IF raised THEN PyNone
                         ELSE IF IsException(resp) THEN PyNone ELSE resp ]

\* ---------------------------------------- request_ores_score_per_article
request_ores_score_per_article(article_revid, email_address, access_token, request_data, header_params, wait, resp) ==
  LET data == IF TruthyInt(article_revid)
              THEN [request_data EXCEPT !.rev_id = article_revid]
              ELSE request_data
      hp1 == IF TruthyStr(email_address)
             THEN [header_params EXCEPT !.email_address = email_address]
             ELSE header_params
      hp == IF TruthyStr(access_token)
            THEN [hp1 EXCEPT !.access_token = access_token]
            ELSE hp1
      raised == \/ ~TruthyInt(data.rev_id)
                \/ ~TruthyStr(hp.email_address)
                \/ ~TruthyStr(hp.access_token)
      sleep == IF wait > 0
               THEN << [svc |-> "ores", ev |-> "wait", ms |-> wait] >>
               ELSE << >>
      post == << [svc |-> "ores", ev |-> "request", rev_id |-> data.rev_id,
                  bearer |-> hp.access_token] >>
  IN [ request_data |-> data,
       header_params |-> hp,
       raised |-> raised,
       net |-> IF raised THEN << >> ELSE sleep \o post,
       json_response |-> IF raised THEN PyNone
                         ELSE IF IsException(resp) THEN PyNone ELSE resp ]

\* ------------------------------------------------------------ cell bodies
\* variant of PageInfoOutcome with the lastrevid subscript outside the try
\* block as well: a missing page raises out of the cell
PageInfoOutcome_NoTry(json) ==
  IF IsNone(json) THEN "TypeError"
  ELSE LET info_num == FirstKey(json.query.pages)
       IN IF "lastrevid" \in DOMAIN json.query.pages[info_num]
          THEN "good" ELSE "KeyError"

\* lines 190-199: what one page-info response leads to.  The subscript
\* info['query'] is outside the try block, so None raises out of the cell.
PageInfoOutcome(json) ==
  IF IsNone(json) THEN "TypeError"
  ELSE LET info_num == FirstKey(json.query.pages)
       IN IF "lastrevid" \in DOMAIN json.query.pages[info_num]
          THEN "good" ELSE "bad"

\* line 193
LastRevId(json) == json.query.pages[FirstKey(json.query.pages)].lastrevid

\* variant of OresExtract that takes the prediction with dict.get-like
\* defaults, so a response without articlequality still counts as scored
OresExtract_Lenient(json) ==
  IF IsNone(json) THEN [ok |-> FALSE, prediction |-> ""]
  ELSE LET scores == json.enwiki.scores
           aq_id == FirstKey(scores)
       IN IF "articlequality" \in DOMAIN scores[aq_id]
          THEN [ok |-> TRUE,
                prediction |-> scores[aq_id].articlequality.score.prediction]
          ELSE [ok |-> TRUE, prediction |-> ""]

\* lines 361-362, inside the try block: every failure is caught
OresExtract(json) ==
  IF IsNone(json) THEN [ok |-> FALSE, prediction |-> ""]
  ELSE LET scores == json.enwiki.scores
           aq_id == FirstKey(scores)
       IN IF "articlequality" \in DOMAIN scores[aq_id]
          THEN [ok |-> TRUE,
                prediction |-> scores[aq_id].articlequality.score.prediction]
          ELSE [ok |-> FALSE, prediction |-> ""]

\* lines 489-492: scan every region, no break, so the last match wins;
\* without a match region / population keep whatever they held before.
RECURSIVE RegionScan(_, _, _, _)
RegionScan(rl, k, country, cur) ==
  IF k > Len(rl) THEN cur
  ELSE LET r == rl[k]
       IN IF InList(country, r.country_list)
          THEN RegionScan(rl, k + 1, country,
                 [found |-> TRUE, region |-> r.region,
                  population |-> r.population_list[IndexOf(country, r.country_list)],
                  region_list |-> cur.region_list])
          ELSE RegionScan(rl, k + 1, country, cur)

\* variant: a lookup that takes the country it found out of the table
ResolveRegion_Consuming(rl, country, curRegion, curPopulation) ==
  LET j == RegionScan(rl, 1, country,
             [found |-> FALSE, region |-> curRegion, population |-> curPopulation,
              region_list |-> rl])
  IN [j EXCEPT !.region_list =
        [k \in 1..Len(rl) |->
           [rl[k] EXCEPT !.country_list = SelectSeq(@, LAMBDA c : c # country)]]]

ResolveRegion(rl, country, curRegion, curPopulation) ==
  RegionScan(rl, 1, country,
             [found |-> FALSE, region |-> curRegion, population |-> curPopulation,
              region_list |-> rl])

\* line 481
SkipPolitician(p, bad_list) == InList(p, bad_list)

EmptyFinalDict ==
  [country |-> << >>, region |-> << >>, population |-> << >>,
   article_title |-> << >>, revision_id |-> << >>, article_quality |-> << >>]

\* variant of to_csv that writes the rows in reverse order
to_csv_Reversed(fd) ==
  [k \in 1..Len(fd.country) |->
     LET m == Len(fd.country) + 1 - k
     IN [country |-> fd.country[m], region |-> fd.region[m],
         population |-> fd.population[m], article_title |-> fd.article_title[m],
         revision_id |-> fd.revision_id[m], article_quality |-> fd.article_quality[m]]]

\* lines 682-683: pd.DataFrame(final_dict).to_csv(index=False): one row per
\* position of the column lists, columns in dict order
to_csv(fd) ==
  [k \in 1..Len(fd.country) |->
     [country |-> fd.country[k], region |-> fd.region[k],
      population |-> fd.population[k], article_title |-> fd.article_title[k],
      revision_id |-> fd.revision_id[k], article_quality |-> fd.article_quality[k]]]

NotWritten == [written |-> FALSE]

\* ------------------------------------------------------------------- Init
Init ==
  /\ politicians_df \in SeqsUpTo(PoliticianRows, MaxRoster)
  /\ population_df \in Hierarchies
  /\ environ \in [ACCESS_TOKEN : Tokens]
  /\ pc = "pageinfo"
  /\ i = 1
  /\ crash = NoCrash
  /\ API_THROTTLE_WAIT = PAGEINFO_THROTTLE_MS
  /\ PAGEINFO_PARAMS_TEMPLATE = [titles |-> ""]
  /\ ORES_REQUEST_DATA_TEMPLATE = [lang |-> "en", rev_id |-> 0, features |-> TRUE]
  /\ REQUEST_HEADER_PARAMS_TEMPLATE = [email_address |-> "", access_token |-> ""]
  /\ net = << >>
  /\ info = PyNone
  /\ score = PyNone
  /\ politicians_list = << >>
  /\ bad_politician_list = << >>
  /\ bad_final_politician_list = << >>
  /\ pkl1 = NotWritten
  /\ pkl2 = NotWritten
  /\ region_list = << >>
  /\ region_dict = [region |-> << >>, population |-> 0]
  /\ country_list = << >>
  /\ population_list = << >>
  /\ region = << >>
  /\ population = 0
  /\ bound = {}
  /\ final_dict = EmptyFinalDict
  /\ csv = NotWritten
  /\ origin = << >>
  /\ fate = [k \in 1..Len(politicians_df) |-> "PENDING"]
  /\ gotRev = [k \in 1..Len(politicians_df) |-> 0]
  /\ gotLabel = [k \in 1..Len(politicians_df) |-> ""]
  /\ gotScore = [k \in 1..Len(politicians_df) |-> ""]
  /\ call = [fn |-> ""]
  /\ ncalls = 0
  /\ stub = NoStub
  /\ run = 1
  /\ firstRun = NoFirstRun

\* variant: a loop that stays on a record whose iteration failed
NextIndex_RetryFailed(k, failed) == IF failed THEN k ELSE k + 1

\* lines 186 and 351: the two request loops are for statements over the
\* roster / over politicians_list, so the next iteration takes the next
\* element whether the body recorded a failure or not
NextIndex(k, failed) == k + 1

Crash(cell, exc) ==
  /\ pc' = "crashed"
  /\ crash' = [cell |-> cell, exc |-> exc]
  /\ i' = i

\* ------------------------------------------- cell 5: the page-info loop
PageInfoStep ==
  /\ pc = "pageinfo"
  /\ i <= Len(politicians_df)
  /\ \E resp \in PageInfoReplies(politicians_df[i].name) :
       LET rd == politicians_df[i]
           article_title == rd.name
           r == request_pageinfo_per_article(article_title, REQUEST_HEADERS,
                    PAGEINFO_PARAMS_TEMPLATE, API_THROTTLE_WAIT, resp)
           outcome == IF r.raised THEN "Exception"
                      ELSE PageInfoOutcome(r.json_response)
       IN /\ PAGEINFO_PARAMS_TEMPLATE' = r.request_template
          /\ net' = net \o r.net
          /\ info' = IF r.raised THEN info ELSE r.json_response
          /\ IF outcome = "good"
             THEN LET rev_id == LastRevId(r.json_response)
                  IN /\ politicians_list' =
                          Append(politicians_list, DictSet(rd, "revision_id", rev_id))
                     /\ origin' = Append(origin, i)
                     /\ fate' = [fate EXCEPT ![i] = "HAS_REVISION"]
                     /\ gotRev' = [gotRev EXCEPT ![i] = rev_id]
                     /\ UNCHANGED bad_politician_list
                     /\ i' = NextIndex(i, FALSE)
                     /\ UNCHANGED <<pc, crash>>
             ELSE IF outcome = "bad"
             THEN /\ bad_politician_list' = Append(bad_politician_list, rd)
                  /\ fate' = [fate EXCEPT ![i] = "FAILED_PAGEINFO"]
                  /\ UNCHANGED <<politicians_list, origin, gotRev>>
                  /\ i' = NextIndex(i, TRUE)
                  /\ UNCHANGED <<pc, crash>>
             ELSE /\ Crash("pageinfo", outcome)
                  /\ UNCHANGED <<politicians_list, bad_politician_list,
                                 origin, fate, gotRev>>
  /\ UNCHANGED <<inputs, session, API_THROTTLE_WAIT, ORES_REQUEST_DATA_TEMPLATE,
                 REQUEST_HEADER_PARAMS_TEMPLATE, score, bad_final_politician_list,
                 pickles, regions, outputs, gotLabel, gotScore, client>>

\* cell 6: pickle.dump((politicians_list, bad_politician_list))
Pickle1 ==
  /\ pc = "pageinfo"
  /\ i > Len(politicians_df)
  /\ pkl1' = [written |-> TRUE, politicians_list |-> politicians_list,
              bad_politician_list |-> bad_politician_list]
  /\ pc' = "pickle1"
  /\ UNCHANGED <<inputs, session, i, crash, templates, net, info, score, lists, pkl2,
                 regions, outputs, ghost, client>>

\* cells 7-9: the ORES constants rebind the global API_THROTTLE_WAIT and
\* create the two templates, the function is defined with them as its
\* defaults, and the scoring cell empties its two lists
OresSetup ==
  /\ pc = "pickle1"
  /\ API_THROTTLE_WAIT' = ORES_THROTTLE_MS
  /\ ORES_REQUEST_DATA_TEMPLATE' = [lang |-> "en", rev_id |-> 0, features |-> TRUE]
  /\ REQUEST_HEADER_PARAMS_TEMPLATE' = [email_address |-> "", access_token |-> ""]
  /\ bad_final_politician_list' = << >>
  /\ bound' = bound \cup {"bad_final_politician_list"}
  /\ pc' = "ores"
  /\ i' = 1
  /\ UNCHANGED <<inputs, session, crash, PAGEINFO_PARAMS_TEMPLATE,
                 net, info, score, politicians_list, bad_politician_list,
                 pickles, region_list, region_dict, country_list,
                 population_list, region, population, outputs, ghost, client>>

\* cell 9: the ORES scoring loop (whole body inside try / bare except)
OresStep ==
  /\ pc = "ores"
  /\ i <= Len(politicians_list)
  /\ LET p == politicians_list[i]
         revision_id == p.revision_id
     IN \E resp \in OresReplies(revision_id) :
          LET r == request_ores_score_per_article(revision_id, EMAIL_ADDRESS,
                     environ.ACCESS_TOKEN, ORES_REQUEST_DATA_TEMPLATE,
                     REQUEST_HEADER_PARAMS_TEMPLATE, API_THROTTLE_WAIT, resp)
              ex == IF r.raised THEN [ok |-> FALSE, prediction |-> ""]
                    ELSE OresExtract(r.json_response)
          IN /\ ORES_REQUEST_DATA_TEMPLATE' = r.request_data
             /\ REQUEST_HEADER_PARAMS_TEMPLATE' = r.header_params
             /\ net' = net \o r.net
             /\ score' = IF r.raised THEN score ELSE r.json_response
             /\ gotScore' = [gotScore EXCEPT ![origin[i]] =
                               IF r.raised THEN "raised"
                               ELSE IF IsNone(r.json_response) THEN "none"
                               ELSE IF ex.ok THEN "scored" ELSE "noscore"]
             /\ IF ex.ok
                THEN /\ politicians_list' =
                          [politicians_list EXCEPT
                             ![i] = DictSet(p, "article_quality", ex.prediction)]
                     /\ fate' = [fate EXCEPT ![origin[i]] = "HAS_QUALITY"]
                     /\ gotLabel' = [gotLabel EXCEPT ![origin[i]] = ex.prediction]
                     /\ UNCHANGED bad_final_politician_list
                ELSE /\ bad_final_politician_list' =
                          Append(bad_final_politician_list, p)
                     /\ fate' = [fate EXCEPT ![origin[i]] = "FAILED_QUALITY"]
                     /\ UNCHANGED <<politicians_list, gotLabel>>
             /\ i' = NextIndex(i, ~ex.ok)
  /\ UNCHANGED <<inputs, session, pc, crash, API_THROTTLE_WAIT, PAGEINFO_PARAMS_TEMPLATE,
                 info, bad_politician_list, pickles, regions, outputs,
                 origin, gotRev, client>>

\* cell 10: pickle.dump((politicians_list)); then cell 11 starts with
\* region_list = []
Pickle2 ==
  /\ pc = "ores"
  /\ i > Len(politicians_list)
  /\ pkl2' = [written |-> TRUE, politicians_list |-> politicians_list]
  /\ region_list' = << >>
  /\ pc' = "regions"
  /\ i' = 1
  /\ UNCHANGED <<inputs, session, crash, templates, net, info, score, lists, pkl1,
                 region_dict, country_list, population_list, region, population,
                 bound, outputs, ghost, client>>

\* variant: the two member lists exist before the loop starts, so a country
\* row in front of the first header is collected instead of failing
RegionRow_Preinit(index, row, rl, rd, cl, pl, names) ==
  LET label == row.Geography
      pop == row.Population
      names1 == names \cup {"region", "population", "country_list",
                            "population_list"}
  IN IF isupper(label)
     THEN IF index > 0 /\ "region_dict" \notin names1
          THEN [exc |-> "NameError", region_list |-> rl, region_dict |-> rd,
                country_list |-> cl, population_list |-> pl, bound |-> names1]
          ELSE [exc |-> "",
                region_list |->
                  IF index > 0
                  THEN Append(rl, [region |-> rd.region,
                                   population |-> rd.population,
                                   country_list |-> cl,
                                   population_list |-> pl])
                  ELSE rl,
                region_dict |-> [region |-> label, population |-> pop],
                country_list |-> << >>,
                population_list |-> << >>,
                bound |-> names1 \cup {"region_dict"}]
     ELSE [exc |-> "", region_list |-> rl, region_dict |-> rd,
           country_list |-> Append(cl, label),
           population_list |-> Append(pl, pop),
           bound |-> names1]

\* variant: the populations of a block are collected newest first
RegionRow_PopulationFirst(index, row, rl, rd, cl, pl, names) ==
  LET label == row.Geography
      pop == row.Population
      names1 == names \cup {"region", "population"}
  IN IF isupper(label)
     THEN IF index > 0 /\ "region_dict" \notin names1
          THEN [exc |-> "NameError", region_list |-> rl, region_dict |-> rd,
                country_list |-> cl, population_list |-> pl, bound |-> names1]
          ELSE [exc |-> "",
                region_list |->
                  IF index > 0
                  THEN Append(rl, [region |-> rd.region,
                                   population |-> rd.population,
                                   country_list |-> cl,
                                   population_list |-> pl])
                  ELSE rl,
                region_dict |-> [region |-> label, population |-> pop],
                country_list |-> << >>,
                population_list |-> << >>,
                bound |-> names1 \cup {"region_dict", "country_list",
                                       "population_list"}]
     ELSE IF "country_list" \notin names1
          THEN [exc |-> "NameError", region_list |-> rl, region_dict |-> rd,
                country_list |-> cl, population_list |-> pl, bound |-> names1]
          ELSE [exc |-> "", region_list |-> rl, region_dict |-> rd,
                country_list |-> Append(cl, label),
                population_list |-> << pop >> \o pl,
                bound |-> names1]

\* cell 11, lines 442-456: one row of the population file.  `index` is the
\* 0-based DataFrame index.  region / population are notebook globals and
\* are rebound by every row, header or not.
RegionRow(index, row, rl, rd, cl, pl, names) ==
  LET label == row.Geography
      pop == row.Population
      names1 == names \cup {"region", "population"}
  IN IF isupper(label)
     THEN IF index > 0 /\ "region_dict" \notin names1
          THEN [exc |-> "NameError", region_list |-> rl, region_dict |-> rd,
                country_list |-> cl, population_list |-> pl, bound |-> names1]
          ELSE [exc |-> "",
                region_list |->
                  IF index > 0
                  THEN Append(rl, [region |-> rd.region,
                                   population |-> rd.population,
                                   country_list |-> cl,
                                   population_list |-> pl])
                  ELSE rl,
                region_dict |-> [region |-> label, population |-> pop],
                country_list |-> << >>,
                population_list |-> << >>,
                bound |-> names1 \cup {"region_dict", "country_list",
                                       "population_list"}]
     ELSE IF "country_list" \notin names1
          THEN [exc |-> "NameError", region_list |-> rl, region_dict |-> rd,
                country_list |-> cl, population_list |-> pl, bound |-> names1]
          ELSE [exc |-> "", region_list |-> rl, region_dict |-> rd,
                country_list |-> Append(cl, label),
                population_list |-> Append(pl, pop),
                bound |-> names1]

RegionStep ==
  /\ pc = "regions"
  /\ i <= Len(population_df)
  /\ LET row == population_df[i]
         r == RegionRow(i - 1, row, region_list, region_dict, country_list,
                        population_list, bound)
     IN /\ region' = row.Geography
        /\ population' = row.Population
        /\ region_list' = r.region_list
        /\ region_dict' = r.region_dict
        /\ country_list' = r.country_list
        /\ population_list' = r.population_list
        /\ bound' = r.bound
        /\ IF r.exc # ""
           THEN Crash("regions", r.exc)
           ELSE /\ i' = i + 1
                /\ UNCHANGED <<pc, crash>>
  /\ UNCHANGED <<inputs, session, templates, net, info, score, lists, pickles, outputs,
                 ghost, client>>

\* cell 12, lines 476-477
FinalDictInit ==
  /\ pc = "regions"
  /\ i > Len(population_df)
  /\ final_dict' = EmptyFinalDict
  /\ pc' = "assemble"
  /\ i' = 1
  /\ UNCHANGED <<inputs, session, crash, templates, net, info, score, lists, pickles,
                 regions, csv, ghost, client>>

\* cell 12, lines 480-500: one politician of politicians_list
AssembleStep ==
  /\ pc = "assemble"
  /\ i <= Len(politicians_list)
  /\ LET p == politicians_list[i]
     IN IF "bad_final_politician_list" \notin bound
        THEN /\ Crash("assemble", "NameError")
             /\ UNCHANGED <<region, population, region_list, final_dict, fate>>
        ELSE IF SkipPolitician(p, bad_final_politician_list)
        THEN /\ i' = i + 1
             /\ UNCHANGED <<pc, crash, region, population, region_list,
                            final_dict, fate>>
        ELSE IF "article_quality" \notin DOMAIN p
        THEN /\ Crash("assemble", "KeyError")
             /\ UNCHANGED <<region, population, region_list, final_dict, fate>>
        ELSE LET j == ResolveRegion(region_list, p.country, region, population)
                 fd1 == [final_dict EXCEPT !.country = Append(@, p.country)]
             IN /\ region' = j.region
                /\ population' = j.population
                /\ region_list' = j.region_list
                /\ IF ~j.found /\ "region" \notin bound
                   THEN /\ final_dict' = fd1
                        /\ Crash("assemble", "NameError")
                        /\ UNCHANGED fate
                   ELSE /\ final_dict' =
                             [fd1 EXCEPT
                                !.region = Append(@, j.region),
                                !.population = Append(@, j.population),
                                !.article_title = Append(@, p.name),
                                !.revision_id = Append(@, p.revision_id),
                                !.article_quality = Append(@, p.article_quality)]
                        /\ fate' = [fate EXCEPT ![origin[i]] = "ENRICHED"]
                        /\ i' = i + 1
                        /\ UNCHANGED <<pc, crash>>
  /\ UNCHANGED <<inputs, session, templates, net, info, score, lists, pickles,
                 region_dict, country_list, population_list, bound,
                 csv, origin, gotRev, gotLabel, gotScore, client>>

\* cell 13, lines 682-683
WriteCsv ==
  /\ pc = "assemble"
  /\ i > Len(politicians_list)
  /\ csv' = [written |-> TRUE, rows |-> to_csv(final_dict)]
  /\ pc' = "done"
  /\ UNCHANGED <<inputs, session, i, crash, templates, net, info, score, lists, pickles,
                 regions, final_dict, ghost, client>>

Next ==
  \/ PageInfoStep
  \/ Pickle1
  \/ OresSetup
  \/ OresStep
  \/ Pickle2
  \/ RegionStep
  \/ FinalDictInit
  \/ AssembleStep
  \/ WriteCsv

Spec == Init /\ [][Next]_vars

\* =================================================== the hierarchy parser
\* The region cell on its own, over every population file of up to MaxRows
\* rows.  The start state is the notebook state in front of cell 11 after
\* an empty roster went through the two request loops.
InitRegions ==
  /\ politicians_df = << >>
  /\ population_df \in SeqsUpTo(PopulationRows, MaxRows)
  /\ environ = [ACCESS_TOKEN |-> "tok"]
  /\ pc = "regions"
  /\ i = 1
  /\ crash = NoCrash
  /\ API_THROTTLE_WAIT = ORES_THROTTLE_MS
  /\ PAGEINFO_PARAMS_TEMPLATE = [titles |-> ""]
  /\ ORES_REQUEST_DATA_TEMPLATE = [lang |-> "en", rev_id |-> 0, features |-> TRUE]
  /\ REQUEST_HEADER_PARAMS_TEMPLATE = [email_address |-> "", access_token |-> ""]
  /\ net = << >>
  /\ info = PyNone
  /\ score = PyNone
  /\ politicians_list = << >>
  /\ bad_politician_list = << >>
  /\ bad_final_politician_list = << >>
  /\ pkl1 = [written |-> TRUE, politicians_list |-> << >>,
             bad_politician_list |-> << >>]
  /\ pkl2 = [written |-> TRUE, politicians_list |-> << >>]
  /\ region_list = << >>
  /\ region_dict = [region |-> << >>, population |-> 0]
  /\ country_list = << >>
  /\ population_list = << >>
  /\ region = << >>
  /\ population = 0
  /\ bound = {"bad_final_politician_list"}
  /\ final_dict = EmptyFinalDict
  /\ csv = NotWritten
  /\ origin = << >>
  /\ fate = << >>
  /\ gotRev = << >>
  /\ gotLabel = << >>
  /\ gotScore = << >>
  /\ call = [fn |-> ""]
  /\ ncalls = 0
  /\ stub = NoStub
  /\ run = 1
  /\ firstRun = NoFirstRun

\* lines 488-492 applied to one country: the join of the assembly loop
ResolveStep ==
  /\ pc = "assemble"
  /\ ncalls < MaxLookups
  /\ \E country \in Countries :
       LET j == ResolveRegion(region_list, country, region, population)
       IN /\ region' = j.region
          /\ population' = j.population
          /\ region_list' = j.region_list
          /\ call' = [fn |-> "resolve", country |-> country, found |-> j.found,
                      region |-> j.region, population |-> j.population]
  /\ ncalls' = ncalls + 1
  /\ UNCHANGED <<inputs, session, control, templates, net, info, score, lists, pickles,
                 region_dict, country_list, population_list, bound,
                 outputs, ghost>>

NextRegions ==
  \/ RegionStep
  \/ FinalDictInit
  \/ ResolveStep

SpecRegions == InitRegions /\ [][NextRegions]_vars

\* ====================================================== the two clients
\* Direct calls of the two request functions, in any order and with any
\* arguments, in a session in which both functions are defined (the state
\* after cell 8 with an empty roster).
TitleArgs == {"", "X"}

HeaderArgs ==
  { REQUEST_HEADERS,
    [x \in {API_HEADER_AGENT} |-> "uwnetid@uw.edu"],
    [x \in {"Accept"} |-> "json"] }

RevIdArgs == {0, 100}

EmailArgs == {"", EMAIL_ADDRESS}

TokenArgs == {"", "tok"}

InitClient ==
  /\ politicians_df = << >>
  /\ population_df = ExampleRows
  /\ environ = [ACCESS_TOKEN |-> "tok"]
  /\ pc = "ores"
  /\ i = 1
  /\ crash = NoCrash
  /\ API_THROTTLE_WAIT = ORES_THROTTLE_MS
  /\ PAGEINFO_PARAMS_TEMPLATE = [titles |-> ""]
  /\ ORES_REQUEST_DATA_TEMPLATE = [lang |-> "en", rev_id |-> 0, features |-> TRUE]
  /\ REQUEST_HEADER_PARAMS_TEMPLATE = [email_address |-> "", access_token |-> ""]
  /\ net = << >>
  /\ info = PyNone
  /\ score = PyNone
  /\ politicians_list = << >>
  /\ bad_politician_list = << >>
  /\ bad_final_politician_list = << >>
  /\ pkl1 = [written |-> TRUE, politicians_list |-> << >>,
             bad_politician_list |-> << >>]
  /\ pkl2 = NotWritten
  /\ region_list = << >>
  /\ region_dict = [region |-> << >>, population |-> 0]
  /\ country_list = << >>
  /\ population_list = << >>
  /\ region = << >>
  /\ population = 0
  /\ bound = {}
  /\ final_dict = EmptyFinalDict
  /\ csv = NotWritten
  /\ origin = << >>
  /\ fate = << >>
  /\ gotRev = << >>
  /\ gotLabel = << >>
  /\ gotScore = << >>
  /\ call = [fn |-> ""]
  /\ ncalls = 0
  /\ stub = NoStub
  /\ run = 1
  /\ firstRun = NoFirstRun

CallPageInfo ==
  /\ ncalls < MaxCalls
  /\ \E article_title \in TitleArgs, headers \in HeaderArgs,
        resp \in {TransportFailure, PageFound("X", 100)} :
       LET r == request_pageinfo_per_article(article_title, headers,
                    PAGEINFO_PARAMS_TEMPLATE, API_THROTTLE_WAIT, resp)
       IN /\ PAGEINFO_PARAMS_TEMPLATE' = r.request_template
          /\ net' = net \o r.net
          /\ info' = IF r.raised THEN info ELSE r.json_response
          /\ call' = [fn |-> "request_pageinfo_per_article",
                      article_title |-> article_title, headers |-> headers,
                      raised |-> r.raised, net |-> r.net]
  /\ ncalls' = ncalls + 1
  /\ UNCHANGED <<inputs, session, control, API_THROTTLE_WAIT, ORES_REQUEST_DATA_TEMPLATE,
                 REQUEST_HEADER_PARAMS_TEMPLATE, score, lists, pickles, regions,
                 outputs, ghost>>

CallOres ==
  /\ ncalls < MaxCalls
  /\ \E article_revid \in RevIdArgs, email_address \in EmailArgs,
        access_token \in TokenArgs,
        resp \in {TransportFailure, ScoreFound(100, "B")} :
       LET r == request_ores_score_per_article(article_revid, email_address,
                    access_token, ORES_REQUEST_DATA_TEMPLATE,
                    REQUEST_HEADER_PARAMS_TEMPLATE, API_THROTTLE_WAIT, resp)
       IN /\ ORES_REQUEST_DATA_TEMPLATE' = r.request_data
          /\ REQUEST_HEADER_PARAMS_TEMPLATE' = r.header_params
          /\ net' = net \o r.net
          /\ score' = IF r.raised THEN score ELSE r.json_response
          /\ call' = [fn |-> "request_ores_score_per_article",
                      article_revid |-> article_revid,
                      email_address |-> email_address,
                      access_token |-> access_token,
                      raised |-> r.raised, net |-> r.net]
  /\ ncalls' = ncalls + 1
  /\ UNCHANGED <<inputs, session, control, API_THROTTLE_WAIT, PAGEINFO_PARAMS_TEMPLATE,
                 info, lists, pickles, regions, outputs, ghost>>

\* lines 80 and 235 run again: each constants cell assigns the one
\* notebook global API_THROTTLE_WAIT, the page-info cell its 8 ms, the ORES
\* cell its 718 ms
RunConstantsCell ==
  /\ \E ms \in {PAGEINFO_THROTTLE_MS, ORES_THROTTLE_MS} :
       /\ ms # API_THROTTLE_WAIT
       /\ API_THROTTLE_WAIT' = ms
  /\ UNCHANGED <<inputs, session, control, PAGEINFO_PARAMS_TEMPLATE,
                 ORES_REQUEST_DATA_TEMPLATE, REQUEST_HEADER_PARAMS_TEMPLATE,
                 net, info, score, lists, pickles, regions, outputs, ghost,
                 client>>

NextClient ==
  \/ CallPageInfo
  \/ CallOres
  \/ RunConstantsCell

SpecClient == InitClient /\ [][NextClient]_vars

\* ============================================ the notebook run a second time
\* "Run All" twice in one kernel session, on the same two input files and
\* with services that answer the same request the same way.

\* a hierarchy whose first row is a country
MalformedRows ==
  << [Geography |-> Algeria, Population |-> 468],
     [Geography |-> AFRICA,  Population |-> 14530],
     [Geography |-> Egypt,   Population |-> 1052] >>

RerunHierarchies == {ExampleRows, FlushedRows, MalformedRows}

\* the notebook globals no cell initialises before use, in a kernel that has
\* run nothing yet
FreshKernel ==
  [region |-> << >>, population |-> 0,
   region_dict |-> [region |-> << >>, population |-> 0],
   country_list |-> << >>, population_list |-> << >>, bound |-> {}]

\* the same globals as an earlier run over FlushedRows with politician X
\* left them: the region cell ended on the header WORLD, the assembly loop
\* resolved Algeria last
UsedKernel ==
  [region |-> AFRICA, population |-> 468,
   region_dict |-> [region |-> WORLD, population |-> 80090],
   country_list |-> << >>, population_list |-> << >>,
   bound |-> {"region", "population", "region_dict", "country_list",
              "population_list", "bad_final_politician_list"}]

Kernels == {FreshKernel, UsedKernel}

InitRerun ==
  /\ politicians_df \in SeqsUpTo(PoliticianRows, MaxRoster)
  /\ population_df \in RerunHierarchies
  /\ environ = [ACCESS_TOKEN |-> "tok"]
  /\ stub \in Stubs
  /\ pc = "pageinfo"
  /\ i = 1
  /\ crash = NoCrash
  /\ API_THROTTLE_WAIT = PAGEINFO_THROTTLE_MS
  /\ PAGEINFO_PARAMS_TEMPLATE = [titles |-> ""]
  /\ ORES_REQUEST_DATA_TEMPLATE = [lang |-> "en", rev_id |-> 0, features |-> TRUE]
  /\ REQUEST_HEADER_PARAMS_TEMPLATE = [email_address |-> "", access_token |-> ""]
  /\ net = << >>
  /\ info = PyNone
  /\ score = PyNone
  /\ politicians_list = << >>
  /\ bad_politician_list = << >>
  /\ bad_final_politician_list = << >>
  /\ pkl1 = NotWritten
  /\ pkl2 = NotWritten
  /\ region_list = << >>
  /\ \E k \in Kernels :
       /\ region_dict = k.region_dict
       /\ country_list = k.country_list
       /\ population_list = k.population_list
       /\ region = k.region
       /\ population = k.population
       /\ bound = k.bound
  /\ final_dict = EmptyFinalDict
  /\ csv = NotWritten
  /\ origin = << >>
  /\ fate = [k \in 1..Len(politicians_df) |-> "PENDING"]
  /\ gotRev = [k \in 1..Len(politicians_df) |-> 0]
  /\ gotLabel = [k \in 1..Len(politicians_df) |-> ""]
  /\ gotScore = [k \in 1..Len(politicians_df) |-> ""]
  /\ call = [fn |-> ""]
  /\ ncalls = 0
  /\ run = 1
  /\ firstRun = NoFirstRun

\* what a run leaves for its reader: how it ended and the file it wrote
Outcome == [pc |-> pc, crash |-> crash, csv |-> csv]

\* the first run is over and the notebook is run again from the top: cells
\* 1-5 read the same files, recreate the page-info constants and template,
\* redefine the function and empty the two lists of the page-info loop.
\* Nothing else is reset: the kernel keeps every other global, and the
\* output file stays on disk until cell 13 writes it again.
Rerun ==
  /\ run = 1
  /\ pc \in {"done", "crashed"}
  /\ firstRun' = Outcome
  /\ run' = 2
  /\ pc' = "pageinfo"
  /\ i' = 1
  /\ crash' = NoCrash
  /\ API_THROTTLE_WAIT' = PAGEINFO_THROTTLE_MS
  /\ PAGEINFO_PARAMS_TEMPLATE' = [titles |-> ""]
  /\ politicians_list' = << >>
  /\ bad_politician_list' = << >>
  /\ net' = << >>
  /\ origin' = << >>
  /\ fate' = [k \in 1..Len(politicians_df) |-> "PENDING"]
  /\ gotRev' = [k \in 1..Len(politicians_df) |-> 0]
  /\ gotLabel' = [k \in 1..Len(politicians_df) |-> ""]
  /\ gotScore' = [k \in 1..Len(politicians_df) |-> ""]
  /\ UNCHANGED <<inputs, ORES_REQUEST_DATA_TEMPLATE,
                 REQUEST_HEADER_PARAMS_TEMPLATE, info, score,
                 bad_final_politician_list, pickles, regions, outputs,
                 client>>

NextRerun ==
  \/ Next
  \/ Rerun

SpecRerun == InitRerun /\ [][NextRerun]_vars

\* ================================== resuming from the quality-stage pickle
\* The pickle cells are there so that "these lists can be loaded later".
\* After a finished run the kernel is restarted, politicians_list is loaded
\* from the second pickle, and the notebook goes on with the region cell.
\* The restarted kernel holds no other global of the earlier cells; the
\* second pickle has no failure list to load, and the person resuming may
\* or may not type `bad_final_politician_list = []` before going on.
Resume ==
  /\ run = 1
  /\ pc = "done"
  /\ pkl2.written
  /\ firstRun' = Outcome
  /\ run' = 2
  /\ politicians_list' = pkl2.politicians_list
  /\ bad_politician_list' = << >>
  /\ bad_final_politician_list' = << >>
  /\ \E retyped \in BOOLEAN :
       bound' = IF retyped THEN {"bad_final_politician_list"} ELSE {}
  /\ region_list' = << >>
  /\ region_dict' = FreshKernel.region_dict
  /\ country_list' = << >>
  /\ population_list' = << >>
  /\ region' = FreshKernel.region
  /\ population' = FreshKernel.population
  /\ final_dict' = EmptyFinalDict
  /\ info' = PyNone
  /\ score' = PyNone
  /\ net' = << >>
  /\ pc' = "regions"
  /\ i' = 1
  /\ crash' = NoCrash
  /\ fate' = [k \in 1..Len(politicians_df) |->
                IF fate[k] = "ENRICHED" THEN "HAS_QUALITY" ELSE fate[k]]
  /\ UNCHANGED <<inputs, templates, pickles, csv, origin, gotRev, gotLabel,
                 gotScore, client>>

NextResume ==
  \/ Next
  \/ Resume

SpecResume == Init /\ [][NextResume]_vars

\* ================================================================ claims
\* ---- vocabulary of the claims, read off the inputs
Roster == 1..Len(politicians_df)

FileRows == 1..Len(population_df)

IsHeaderRow(k) == isupper(population_df[k].Geography)

IsCountryRow(k) == ~IsHeaderRow(k)

HasHeaderBefore(k) == \E h \in 1..(k-1) : IsHeaderRow(h)

\* label of the most recently seen region header before row k
HeaderBefore(k) ==
  LET h == CHOOSE h \in 1..(k-1) :
             IsHeaderRow(h) /\ \A g \in (h+1)..(k-1) : ~IsHeaderRow(g)
  IN population_df[h].Geography

OccursOnce(k) ==
  \A m \in FileRows : m # k => population_df[m].Geography # population_df[k].Geography

\* the country-to-region lookup the assembly performs on the built table
Lookup(country) == ResolveRegion(region_list, country, << >>, 0)

\* number of complete output records
OutputCount == Len(final_dict.article_quality)

\* roster positions that received a quality label, in roster order
Scored ==
  SelectSeq([k \in Roster |-> k], LAMBDA k : gotLabel[k] # "")

PageOf(json) == json.query.pages[FirstKey(json.query.pages)]

\* C1: when the run ends, output records plus failure records number as many
\* as the roster records, and every roster record is in exactly one of
\* the two.
C1_EveryRecordAccounted ==
  pc \in {"done", "crashed"} =>
    /\ OutputCount + Len(bad_politician_list) + Len(bad_final_politician_list)
         = Len(politicians_df)
    /\ \A k \in Roster :
         fate[k] \in {"ENRICHED", "FAILED_PAGEINFO", "FAILED_QUALITY"}

\* C2: no per-record failure, a missing transport response included, aborts
\* the batch: once the page-info loop is over, every roster record has
\* been processed by it.
C2_FailureNeverAbortsBatch ==
  pc # "pageinfo" => \A k \in Roster : fate[k] # "PENDING"

\* C3: after parsing a well-formed hierarchy, every member-country row is in
\* the country-to-region lookup, mapped to the most recently seen region
\* header before it and to its own population (stated for the countries
\* that occur once in the file).
C3_EveryCountryRowResolves ==
  pc = "assemble" =>
    \A k \in FileRows :
      (IsCountryRow(k) /\ OccursOnce(k)) =>
        /\ Lookup(population_df[k].Geography).found
        /\ Lookup(population_df[k].Geography).region = HeaderBefore(k)
        /\ Lookup(population_df[k].Geography).population
             = population_df[k].Population

\* C4: after parsing, the region table holds one entry per region header row
\* of the input, in input order, the last header and the headers without
\* member countries included.
C4_EveryHeaderRetained ==
  pc = "assemble" =>
    [k \in 1..Len(region_list) |->
        [Geography |-> region_list[k].region,
         Population |-> region_list[k].population]]
      = SelectSeq(population_df, LAMBDA row : isupper(row.Geography))

\* C5: a record with revision id and quality label whose country is absent
\* from the country-to-region lookup gets no output row (it is a failure).
C5_UnknownCountryIsFailure ==
  pc \in {"assemble", "done"} =>
    \A k \in 1..OutputCount : Lookup(final_dict.country[k]).found

\* C6: the written rows are the roster restricted to the records that were
\* scored, in roster order; nothing is reordered or de-duplicated.
C6_OutputInRosterOrder ==
  csv.written =>
    /\ Len(csv.rows) = Len(Scored)
    /\ \A j \in 1..Len(csv.rows) :
         /\ csv.rows[j].article_title = politicians_df[Scored[j]].name
         /\ csv.rows[j].country = politicians_df[Scored[j]].country
         /\ csv.rows[j].revision_id = gotRev[Scored[j]]
         /\ csv.rows[j].article_quality = gotLabel[Scored[j]]

\* witness of C6: two rows for two different records were written
C6_Witness ==
  /\ csv.written
  /\ Len(csv.rows) = 2
  /\ csv.rows[1].article_title # csv.rows[2].article_title

\* C7: each written row carries the record's own country and name, the
\* revision id and label the clients returned for it, and the region and
\* country-level population the hierarchy gives for that country.
C7_RowCarriesOwnData ==
  csv.written =>
    \A j \in 1..Len(csv.rows) :
      /\ j <= Len(Scored)
      /\ csv.rows[j].country = politicians_df[Scored[j]].country
      /\ csv.rows[j].article_title = politicians_df[Scored[j]].name
      /\ csv.rows[j].revision_id = gotRev[Scored[j]]
      /\ csv.rows[j].article_quality = gotLabel[Scored[j]]
      /\ \A k \in FileRows :
           (population_df[k].Geography = csv.rows[j].country /\ OccursOnce(k)) =>
             /\ csv.rows[j].region = HeaderBefore(k)
             /\ csv.rows[j].population = population_df[k].Population

\* C8: a page-info response that marks the page as missing puts the record
\* on the page-info failure list, gives it no revision id, does not end
\* the run, and the loop moves on to the next record.
C8_MissingPageIsFailure ==
  [][ (/\ pc = "pageinfo"
       /\ Len(net') > Len(net)
       /\ ~IsNone(info')
       /\ "missing" \in DOMAIN PageOf(info'))
      => (/\ bad_politician_list' = Append(bad_politician_list, politicians_df[i])
          /\ politicians_list' = politicians_list
          /\ gotRev'[i] = 0
          /\ pc' = "pageinfo"
          /\ crash' = NoCrash
          /\ i' = i + 1) ]_vars

\* witness of C8: the first record's page was missing and the second record
\* was processed after it
C8_Witness ==
  /\ Len(politicians_df) = 2
  /\ fate[1] = "FAILED_PAGEINFO"
  /\ bad_politician_list # << >>
  /\ fate[2] = "HAS_REVISION"

\* C9: a quality response without the articlequality prediction puts the
\* record on the quality failure list without a label, the loop moves on,
\* and the assembly emits no row for the record.
C9_MissingScoreIsFailure ==
  [][ /\ (/\ pc = "ores"
          /\ Len(net') > Len(net)
          /\ ~IsNone(score')
          /\ "articlequality" \notin DOMAIN score'.enwiki.scores[FirstKey(score'.enwiki.scores)])
         => (/\ bad_final_politician_list'
                  = Append(bad_final_politician_list, politicians_list[i])
             /\ politicians_list' = politicians_list
             /\ gotLabel'[origin[i]] = ""
             /\ pc' = "ores"
             /\ i' = i + 1)
      /\ (/\ pc = "assemble"
          /\ i <= Len(politicians_list)
          /\ fate[origin[i]] = "FAILED_QUALITY")
         => (/\ final_dict' = final_dict
             /\ pc' = "assemble"
             /\ i' = i + 1) ]_vars

\* witness of C9: the first record failed scoring, the second was scored, and
\* the file was written with the second record only
C9_Witness ==
  /\ Len(politicians_df) = 2
  /\ fate[1] = "FAILED_QUALITY"
  /\ gotScore[1] = "noscore"
  /\ InList(DictSet(politicians_df[1], "revision_id", gotRev[1]),
            bad_final_politician_list)
  /\ fate[2] = "ENRICHED"
  /\ csv.written
  /\ Len(csv.rows) = 1

\* C10: a page-info call with an empty title, or with a missing or
\* placeholder contact identifier, raises and causes no wait and no
\* request, wherever it stands in a sequence of calls.
C10_BadCallRaisesBeforeNetwork ==
  (/\ call.fn = "request_pageinfo_per_article"
   /\ \/ call.article_title = ""
      \/ API_HEADER_AGENT \notin DOMAIN call.headers
      \/ call.headers[API_HEADER_AGENT] \in PlaceholderAgents)
  => (call.raised /\ call.net = << >>)

\* C11: a quality-score call whose revision id is not greater than zero, or
\* whose email or bearer token is empty, raises and issues no wait and no
\* request, wherever it stands in a sequence of calls.
C11_BadScoreCallRaisesBeforeNetwork ==
  (/\ call.fn = "request_ores_score_per_article"
   /\ \/ call.article_revid <= 0
      \/ call.email_address = ""
      \/ call.access_token = "")
  => (call.raised /\ call.net = << >>)

\* C12: with a required configuration value missing (an empty bearer token)
\* the run issues no external request at all and records no per-record
\* failure for the configuration error.
C12_MissingConfigIsFatal ==
  environ.ACCESS_TOKEN = "" =>
    /\ net = << >>
    /\ \A k \in Roster : gotScore[k] # "raised"
    /\ bad_final_politician_list = << >>

LastOfDuplicate(k) ==
  /\ IsCountryRow(k)
  /\ \E m \in 1..(k-1) : population_df[m].Geography = population_df[k].Geography
  /\ \A m \in FileRows :
       (m # k /\ population_df[m].Geography = population_df[k].Geography) =>
         /\ m < k
         /\ \E h \in (m+1)..(k-1) : IsHeaderRow(h)

\* C14: when a country label is listed under two different region headers,
\* the lookup resolves it to the region of the last block listing it and to
\* the population listed in that block.
C14_DuplicateCountryLastBlockWins ==
  pc = "assemble" =>
    \A k \in FileRows :
      LastOfDuplicate(k) =>
        /\ Lookup(population_df[k].Geography).found
        /\ Lookup(population_df[k].Geography).region = HeaderBefore(k)
        /\ Lookup(population_df[k].Geography).population
             = population_df[k].Population

\* the moves of one record's state that the pipeline allows
LegalMove(a, b) ==
  \/ a = b
  \/ a = "PENDING" /\ b \in {"HAS_REVISION", "FAILED_PAGEINFO"}
  \/ a = "HAS_REVISION" /\ b \in {"HAS_QUALITY", "FAILED_QUALITY"}
  \/ a = "HAS_QUALITY" /\ b = "ENRICHED"

\* the recorded state of each roster record agrees with the notebook's data:
\* the records in politicians_list are the ones past the revision stage, the
\* ones carrying article_quality are the ones past the quality stage, the
\* quality failures are in bad_final_politician_list, and the output has one
\* complete row per enriched record
StateMatchesData ==
  /\ \A j \in 1..Len(politicians_list) :
       /\ fate[origin[j]] \in
            {"HAS_REVISION", "HAS_QUALITY", "FAILED_QUALITY", "ENRICHED"}
       /\ fate[origin[j]] \in {"HAS_QUALITY", "ENRICHED"}
            <=> "article_quality" \in DOMAIN politicians_list[j]
       /\ fate[origin[j]] = "FAILED_QUALITY"
            => InList(politicians_list[j], bad_final_politician_list)
  /\ \A k \in Roster :
       fate[k] \in {"PENDING", "FAILED_PAGEINFO"}
         <=> \A j \in 1..Len(politicians_list) : origin[j] # k
  /\ Cardinality({k \in Roster : fate[k] = "FAILED_PAGEINFO"})
       = Len(bad_politician_list)
  /\ Cardinality({k \in Roster : fate[k] = "ENRICHED"}) = OutputCount

\* C15: every record moves only PENDING -> HAS_REVISION -> HAS_QUALITY ->
\* ENRICHED, reaches a failed state only from PENDING or HAS_REVISION, and
\* never leaves a failed state or ENRICHED.
C15_RecordStateMachine ==
  [][/\ \A k \in Roster : LegalMove(fate[k], fate'[k])
     /\ StateMatchesData']_vars

C15_Witness ==
  /\ pc = "done"
  /\ \E k \in Roster : fate[k] = "ENRICHED"
  /\ \E k \in Roster : fate[k] = "FAILED_QUALITY"

\* the requests sent to each service, in the order they were sent
PageInfoRequests ==
  SelectSeq(net, LAMBDA e : e.svc = "pageinfo" /\ e.ev = "request")

OresRequests ==
  SelectSeq(net, LAMBDA e : e.svc = "ores" /\ e.ev = "request")

\* C16: no retry: the page-info requests are one per roster record in roster
\* order, the quality requests one per record of politicians_list in list
\* order, so no record, failed or not, is requested twice by either stage.
C16_AtMostOneRequestPerRecord ==
  /\ Len(PageInfoRequests) <= Len(politicians_df)
  /\ \A n \in 1..Len(PageInfoRequests) :
       PageInfoRequests[n].titles = politicians_df[n].name
  /\ Len(OresRequests) <= Len(politicians_list)
  /\ \A n \in 1..Len(OresRequests) :
       OresRequests[n].rev_id = politicians_list[n].revision_id

C16_Witness ==
  /\ pc = "done"
  /\ Len(politicians_df) = 2
  /\ fate[1] = "FAILED_PAGEINFO"
  /\ fate[2] = "FAILED_QUALITY"
  /\ gotScore[2] = "noscore"
  /\ Len(PageInfoRequests) = 2
  /\ Len(OresRequests) = 1

\* file f holds the failure list of the quality stage
HoldsQualityFailures(f) ==
  /\ f.written
  /\ "bad_final_politician_list" \in DOMAIN f
  /\ f.bad_final_politician_list = bad_final_politician_list

\* C17: when the run is over, the failures of both stages are kept in a saved
\* file: the page-info failure list and the quality failure list are each
\* written out.
C17_FailuresSavedToFile ==
  pc = "done" =>
    /\ bad_politician_list # << >> =>
         /\ pkl1.written
         /\ pkl1.bad_politician_list = bad_politician_list
    /\ bad_final_politician_list # << >> =>
         \/ HoldsQualityFailures(pkl1)
         \/ HoldsQualityFailures(pkl2)

\* C19: a call that passes its checks waits and then sends its request, also
\* when the request then fails, so every request in the log has a wait of
\* the same service right in front of it.
C19_WaitBeforeEveryRequest ==
  /\ \A n \in 1..Len(net) :
       net[n].ev = "request" =>
         /\ n > 1
         /\ net[n-1].ev = "wait"
         /\ net[n-1].svc = net[n].svc
         /\ net[n-1].ms > 0
  /\ (/\ call.fn \in {"request_pageinfo_per_article",
                      "request_ores_score_per_article"}
      /\ ~call.raised)
     => /\ Len(call.net) = 2
        /\ call.net[1].ev = "wait"
        /\ call.net[2].ev = "request"

C19_Witness ==
  /\ call.fn = "request_pageinfo_per_article"
  /\ ~call.raised
  /\ IsNone(info)
  /\ Len(PageInfoRequests) >= 2
  /\ Len(OresRequests) >= 1

\* C20: the two services keep their own delay: a page-info call waits the
\* page-info delay and a quality call waits the ORES delay, whichever delay
\* was set last.
C20_DelaysIndependent ==
  \A n \in 1..Len(net) :
    net[n].ev = "wait" =>
      net[n].ms = IF net[n].svc = "pageinfo"
                  THEN PAGEINFO_THROTTLE_MS
                  ELSE ORES_THROTTLE_MS

\* C18: two runs on the same roster and hierarchy, with services that answer
\* deterministically, end the same way and write the same output, whatever
\* state the kernel was in when the first of them started.
C18_RerunGivesSameOutput ==
  (run = 2 /\ pc \in {"done", "crashed"}) => Outcome = firstRun

\* C21: a quality request goes out only for a record whose page-info request
\* returned a revision id, after that request, and carries that revision
\* id; the records of the page-info failure list get no quality request.
C21_ScoreOnlyAfterRevision ==
  /\ Len(OresRequests) <= Len(politicians_list)
  /\ Len(OresRequests) + Len(bad_politician_list) <= Len(politicians_df)
  /\ \A n \in 1..Len(OresRequests) :
       /\ fate[origin[n]] \notin {"PENDING", "FAILED_PAGEINFO"}
       /\ gotRev[origin[n]] # 0
       /\ OresRequests[n].rev_id = gotRev[origin[n]]
  /\ \A a, b \in 1..Len(net) :
       (a < b /\ net[a].svc = "ores") => net[b].svc = "ores"

C21_Witness ==
  /\ pc = "done"
  /\ Len(politicians_df) = 2
  /\ fate[1] = "FAILED_PAGEINFO"
  /\ fate[2] = "ENRICHED"
  /\ Len(OresRequests) = 1

\* the records of politicians_list, by revision id, are in the first pickle
RevisionsPersisted ==
  /\ pkl1.written
  /\ Len(pkl1.politicians_list) >= Len(politicians_list)
  /\ \A j \in 1..Len(politicians_list) :
       pkl1.politicians_list[j].revision_id = politicians_list[j].revision_id

\* the quality labels received so far are in the second pickle
LabelsPersisted ==
  \A j \in 1..Len(politicians_list) :
    "article_quality" \in DOMAIN politicians_list[j] =>
      /\ pkl2.written
      /\ pkl2.politicians_list[j] = politicians_list[j]

\* C22: when a run has stopped on an error in the middle of a batch, every
\* record whose page-info or quality request had succeeded before is in a
\* saved file.
C22_CrashKeepsFinishedRecords ==
  (pc = "crashed" /\ politicians_list # << >>) =>
    /\ RevisionsPersisted
    /\ LabelsPersisted

\* list a is the front part of list b, entry for entry
IsPrefix(a, b) ==
  /\ Len(a) <= Len(b)
  /\ \A j \in 1..Len(a) : b[j] = a[j]

\* the columns of final_dict only grow at the end
OutputAppendOnly ==
  /\ IsPrefix(final_dict.country, final_dict'.country)
  /\ IsPrefix(final_dict.region, final_dict'.region)
  /\ IsPrefix(final_dict.population, final_dict'.population)
  /\ IsPrefix(final_dict.article_title, final_dict'.article_title)
  /\ IsPrefix(final_dict.revision_id, final_dict'.revision_id)
  /\ IsPrefix(final_dict.article_quality, final_dict'.article_quality)

\* C23 as stated: the list of good records, the two failure lists and the
\* output are append-only: after every step the earlier content of each is a
\* prefix of its current content.
C23_ListsAppendOnly ==
  [][/\ IsPrefix(politicians_list, politicians_list')
     /\ IsPrefix(bad_politician_list, bad_politician_list')
     /\ IsPrefix(bad_final_politician_list, bad_final_politician_list')
     /\ OutputAppendOnly]_vars

\* dict new is dict old, or old with the key article_quality added
SameOrLabelled(old, new) ==
  \/ new = old
  \/ /\ "article_quality" \notin DOMAIN old
     /\ DOMAIN new = DOMAIN old \cup {"article_quality"}
     /\ \A k \in DOMAIN old : new[k] = old[k]

\* C23 amended: the two failure lists and the output are append-only; the
\* list of good records keeps its length and order, and an entry of it
\* changes only by gaining the key article_quality, once.
C23_AppendOnlyUpToLabel ==
  [][/\ Len(politicians_list) <= Len(politicians_list')
     /\ \A j \in 1..Len(politicians_list) :
          SameOrLabelled(politicians_list[j], politicians_list'[j])
     /\ IsPrefix(bad_politician_list, bad_politician_list')
     /\ IsPrefix(bad_final_politician_list, bad_final_politician_list')
     /\ OutputAppendOnly]_vars

C23_Witness ==
  /\ pc = "done"
  /\ Len(politicians_list) = 2
  /\ "article_quality" \in DOMAIN politicians_list[1]
  /\ "article_quality" \notin DOMAIN politicians_list[2]
  /\ bad_final_politician_list = << politicians_list[2] >>
  /\ OutputCount = 1

\* C24: once the region cell is done, the region table is only read:
\* resolving region and population, for any sequence of countries, leaves
\* every entry with its country list and its population list as it was.
C24_RegionTableReadOnly ==
  [][pc = "assemble" => region_list' = region_list]_vars

C24_Witness ==
  /\ pc = "assemble"
  /\ ncalls = MaxLookups
  /\ call.fn = "resolve"
  /\ call.found
  /\ Len(region_list) >= 2
  /\ \E k \in 1..Len(region_list) : Len(region_list[k].country_list) >= 1

\* C25: a request carries the key it was called for: a page-info call that
\* reaches the network requests the title it was given, a quality call the
\* revision id it was given, never a value an earlier call left in the
\* shared template.
C25_RequestCarriesOwnKey ==
  /\ (call.fn = "request_pageinfo_per_article" /\ ~call.raised) =>
       \A n \in 1..Len(call.net) :
         call.net[n].ev = "request" => call.net[n].titles = call.article_title
  /\ (call.fn = "request_ores_score_per_article" /\ ~call.raised) =>
       \A n \in 1..Len(call.net) :
         call.net[n].ev = "request" => call.net[n].rev_id = call.article_revid

\* C26: a run resumed from the quality-stage pickle finishes without error
\* and writes the rows the uninterrupted run wrote.
C26_ResumeGivesSameRows ==
  (run = 2 /\ pc \in {"done", "crashed"}) =>
    /\ pc = "done"
    /\ csv.written
    /\ csv.rows = firstRun.csv.rows

\* C27: a run over a finite roster, with services that always return, comes
\* to its end with every record enriched or failed and the output written:
\* it never stops anywhere else.
C27_RunEndsWithOutput ==
  (pc \in {"done", "crashed"} \/ ~ENABLED Next) =>
    /\ pc = "done"
    /\ csv.written
    /\ \A k \in Roster :
         fate[k] \in {"ENRICHED", "FAILED_PAGEINFO", "FAILED_QUALITY"}

\* row number of the k-th region header of the population file
RECURSIVE NthHeader(_, _)
NthHeader(k, from) ==
  IF IsHeaderRow(from)
  THEN IF k = 1 THEN from ELSE NthHeader(k - 1, from + 1)
  ELSE NthHeader(k, from + 1)

\* C28: in every entry of the region table the country list and the
\* population list have the same length, and position n of both is the n-th
\* row below the entry's header: its label and its own population.
C28_EntryListsAligned ==
  \A k \in 1..Len(region_list) :
    LET e == region_list[k]
        h == NthHeader(k, 1)
    IN /\ Len(e.country_list) = Len(e.population_list)
       /\ e.region = population_df[h].Geography
       /\ e.population = population_df[h].Population
       /\ \A n \in 1..Len(e.country_list) :
            /\ h + n <= Len(population_df)
            /\ IsCountryRow(h + n)
            /\ population_df[h + n].Geography = e.country_list[n]
            /\ population_df[h + n].Population = e.population_list[n]
       /\ h + Len(e.country_list) + 1 <= Len(population_df)
       /\ IsHeaderRow(h + Len(e.country_list) + 1)

C28_Witness ==
  /\ pc = "assemble"
  /\ \E k \in 1..Len(region_list) :
       /\ Len(region_list[k].country_list) >= 2
       /\ region_list[k].population_list[1] # region_list[k].population_list[2]

\* row k is the first of several rows of its block that carry its label
FirstOfRepeatInBlock(k) ==
  /\ IsCountryRow(k)
  /\ HasHeaderBefore(k)
  /\ \E m \in (k+1)..Len(population_df) :
       /\ population_df[m].Geography = population_df[k].Geography
       /\ \A h \in k..m : ~IsHeaderRow(h)
  /\ \A m \in FileRows :
       (m # k /\ population_df[m].Geography = population_df[k].Geography) =>
         /\ m > k
         /\ \A h \in k..m : ~IsHeaderRow(h)

\* C29: a country listed more than once inside one region block (and in no
\* other block) resolves to that block's region and to the population of
\* its first listing there.
C29_FirstListingInBlockWins ==
  pc = "assemble" =>
    \A k \in FileRows :
      FirstOfRepeatInBlock(k) =>
        /\ Lookup(population_df[k].Geography).found
        /\ Lookup(population_df[k].Geography).region = HeaderBefore(k)
        /\ Lookup(population_df[k].Geography).population
             = population_df[k].Population

====
